---------------------------- MODULE Spec2Model ----------------------------
(***************************************************************************)
(* A model of process_manual (src/src/lib.rs, lines 218-308): the walk of  *)
(* docs/manual/, one directory per section and one file per item, that     *)
(* drives the four callbacks section_start, section_name, process_file and *)
(* section_end over one String accumulator.                                *)
(*                                                                         *)
(* A character is its Unicode code point; a file or directory name is a    *)
(* sequence of units, each a character or the unit of NotUtf8, which       *)
(* stands for the byte FF that no UTF-8 text holds.  The order of the      *)
(* units is the byte order of the encoded names, which is the order        *)
(* PathBuf's Ord compares components in.  A path is the sequence of its    *)
(* components below docs/manual/: <<d>> for a section directory, <<d, f>>  *)
(* for a file of it.                                                       *)
(***************************************************************************)
EXTENDS Integers, Sequences, FiniteSets, TLC

VARIABLES
    \* the environment: the file tree, the build and the caller's argument
    root,             \* "ok" | "missing" | "unreadable": what read_dir(docs/manual/) meets
    tree,             \* section directory name -> the set of its file names
    blocked,          \* the entries of docs/manual/ whose own read_dir fails
    overflow_checks,  \* whether the build panics on integer overflow
    start_string,     \* the argument start_string
    budget,           \* how many changes of the tree the callbacks may still make
    \* process_manual's locals
    pc,               \* where the call stands
    string,           \* the accumulator handed to every callback
    dirs,             \* the sorted Vec of section paths
    last_index,       \* dirs.len() - 1
    i,                \* the enumerate() index of the section loop
    paths,            \* the part of the section's sorted Vec still to iterate
    \* observation
    calls,            \* every callback call so far, with its arguments
    listed,           \* for every section listed so far, what its listing held
    tree0,            \* the tree when the call began
    runs,             \* the number of calls of process_manual begun
    prev              \* the calls and the result of the call before this one

vars == <<root, tree, blocked, overflow_checks, start_string, budget, pc, string,
          dirs, last_index, i, paths, calls, listed, tree0, runs, prev>>

-----------------------------------------------------------------------------
(* Bounds of the model *)

\* the longest generated file or directory name
MaxLen == 3
\* the most sections a generated tree holds
MaxSections == 2
\* the most files a generated section holds
MaxItems == 2
\* the most changes the callbacks of one call make to the tree
MaxMutations == 1
\* the most calls of process_manual in a row
MaxRuns == 2

-----------------------------------------------------------------------------
(* Names *)

\* The unit that stands for the byte FF: it is no character (it is past the
\* last code point, 10FFFF) and sorts after every character, as FF sorts
\* after every byte of UTF-8
NotUtf8 == {1114112}

\* The first units generated names begin with:
\*   '.'  '1'  'A'  'S'  'T'  'X'  '_'  's'  't'  'x'  e-acute  FF
KindChars == {46, 49, 65, 83, 84, 88, 95, 115, 116, 120, 233} \cup NotUtf8

\* The units generated names continue with:  '.'  'S'  '_'  'a'  e-acute  FF
RestChars == {46, 83, 95, 97, 233} \cup NotUtf8

\* The alphabetic characters beyond ASCII among the above: e-acute
NonAsciiAlphabetic == {233}

\* "A_one", "B_two", "1_alpha", "2_beta"
A_one == <<65, 95, 111, 110, 101>>
B_two == <<66, 95, 116, 119, 111>>
N1_alpha == <<49, 95, 97, 108, 112, 104, 97>>
N2_beta == <<50, 95, 98, 101, 116, 97>>

\* "A_one", "B_two", "S_a_b", "s_" e-acute "_a"
SectionPool == {A_one, B_two, <<83, 95, 97, 95, 98>>, <<115, 95, 233, 95, 97>>}

\* "1_alpha", "2_beta", "x_a_b.md"
ItemPool == {N1_alpha, N2_beta, <<120, 95, 97, 95, 98, 46, 109, 100>>}

\* A directory listing never holds "." or ".."
IsEntryName(n) == n # <<46>> /\ n # <<46, 46>>

\* Every name of at most MaxLen characters over KindChars and RestChars
Names ==
    { n \in UNION { { <<k>> \o r : k \in KindChars, r \in [1..m -> RestChars] }
                    : m \in 0..(MaxLen - 1) } : IsEntryName(n) }

-----------------------------------------------------------------------------
(* Characters *)

\* char::is_alphabetic
is_alphabetic(c) ==
    \/ (c >= 65 /\ c <= 90)
    \/ (c >= 97 /\ c <= 122)
    \/ c \in NonAsciiAlphabetic

\* char::to_ascii_uppercase: only 'a'..'z' change
to_ascii_uppercase(c) == IF c >= 97 /\ c <= 122 THEN c - 32 ELSE c

\* A From<char> for ManualItem that ignores the case of the character
ManualItemFromAnyCase(value) ==
    IF value \in {83, 84, 115, 116} THEN "Tool"
    ELSE IF value \in {88, 120} THEN "Texture"
    ELSE "Regular"

\* impl From<char> for ManualItem
ManualItemFrom(value) ==
    IF value = 83 \/ value = 84 THEN "Tool"
    ELSE IF value = 88 THEN "Texture"
    ELSE "Regular"

-----------------------------------------------------------------------------
(* Stems *)

\* The indices of the '.' characters of a name
DotsOf(name) == { k \in 1..Len(name) : name[k] = 46 }

Max(S) == CHOOSE m \in S : \A k \in S : k <= m

\* Path::file_stem of a path whose last component is name: the whole name
\* when it holds no '.', or only one that begins it; else what is before
\* its last '.'
file_stem(name) ==
    IF DotsOf(name) = {} \/ Max(DotsOf(name)) = 1 \/ name = <<46, 46>>
    THEN name
    ELSE SubSeq(name, 1, Max(DotsOf(name)) - 1)

\* Iterator::skip_while(|c| !c.is_alphabetic())
RECURSIVE skip_while_not_alphabetic(_)
skip_while_not_alphabetic(s) ==
    IF s = <<>> THEN <<>>
    ELSE IF is_alphabetic(Head(s)) THEN s
    ELSE skip_while_not_alphabetic(Tail(s))

\* OsStr::to_str: None when the name is not valid UTF-8
to_str(name) ==
    [some |-> \A k \in 1..Len(name) : name[k] \notin NotUtf8, value |-> name]

\* What stem_chars gives when an unwrap of it panics
StemPanic == [panicked |-> TRUE, chars |-> <<>>, item |-> "Regular"]

\* stem_chars that keeps the first character in the iterator
stem_chars_keeping_first(path) ==
    LET stem == to_str(file_stem(path[Len(path)]))
    IN  IF ~stem.some THEN StemPanic
        ELSE [panicked |-> FALSE,
              chars |-> skip_while_not_alphabetic(stem.value),
              item  |-> ManualItemFrom(Head(stem.value))]

\* stem_chars that does not skip to the first alphabetic character
stem_chars_no_skip(path) ==
    LET stem == to_str(file_stem(path[Len(path)]))
    IN  IF ~stem.some THEN StemPanic
        ELSE [panicked |-> FALSE,
              chars |-> Tail(stem.value),
              item  |-> ManualItemFrom(Head(stem.value))]

\* stem_chars: it panics on a stem that is not valid UTF-8; else the
\* stem's first character gives the kind, and the iterator starts at the
\* first alphabetic character after it
stem_chars(path) ==
    LET stem == to_str(file_stem(path[Len(path)]))
    IN  IF ~stem.some THEN StemPanic
        ELSE [panicked |-> FALSE,
              chars |-> skip_while_not_alphabetic(Tail(stem.value)),
              item  |-> ManualItemFrom(Head(stem.value))]

\* The section's name with no character upper-cased
SectionNameLower(chars) ==
    [k \in 1..Len(chars) |-> IF chars[k] = 95 THEN 32 ELSE chars[k]]

\* The String name of the section loop: the first character of the iterator
\* in ASCII upper case, then the others with '_' turned into ' '
SectionName(chars) ==
    <<to_ascii_uppercase(Head(chars))>>
        \o [k \in 1..(Len(chars) - 1) |->
                IF chars[k + 1] = 95 THEN 32 ELSE chars[k + 1]]

-----------------------------------------------------------------------------
(* Listings and their order *)

\* Ord of two names: byte-wise, a proper prefix first
RECURSIVE NameLt(_, _)
NameLt(a, b) ==
    IF b = <<>> THEN FALSE
    ELSE IF a = <<>> THEN TRUE
    ELSE IF Head(a) # Head(b) THEN Head(a) < Head(b)
    ELSE NameLt(Tail(a), Tail(b))

\* Ord of PathBuf: component by component
RECURSIVE PathLt(_, _)
PathLt(p, q) ==
    IF q = <<>> THEN FALSE
    ELSE IF p = <<>> THEN TRUE
    ELSE IF Head(p) # Head(q) THEN NameLt(Head(p), Head(q))
    ELSE PathLt(Tail(p), Tail(q))

\* A Vec with x put before the first element that is not less than it
RECURSIVE Insert(_, _)
Insert(x, s) ==
    IF s = <<>> THEN <<x>>
    ELSE IF PathLt(Head(s), x) THEN <<Head(s)>> \o Insert(x, Tail(s))
    ELSE <<x>> \o s

\* A sort that leaves the Vec in the order of the listing
sort_unstable_skipped(v) == v

\* A sort in descending order
RECURSIVE sort_unstable_descending(_)
sort_unstable_descending(v) ==
    IF v = <<>> THEN <<>>
    ELSE LET s == sort_unstable_descending(Tail(v))
             before == SelectSeq(s, LAMBDA y : PathLt(Head(v), y))
             after == SelectSeq(s, LAMBDA y : ~PathLt(Head(v), y))
         IN  before \o <<Head(v)>> \o after

\* [PathBuf]::sort_unstable
RECURSIVE sort_unstable(_)
sort_unstable(v) ==
    IF v = <<>> THEN <<>> ELSE Insert(Head(v), sort_unstable(Tail(v)))

\* The orders in which a listing may return the entries S
Listings(S) ==
    { l \in [1..Cardinality(S) -> S] : \A a, b \in 1..Cardinality(S) : a # b => l[a] # l[b] }

\* read_dir(docs/manual/) succeeds
RootReadableAlways(r) == TRUE

RootReadable(r) == r = "ok"

\* The paths of the entries of docs/manual/
RootEntries(t) == { <<d>> : d \in DOMAIN t }

\* read_dir(&dir) succeeds
DirReadable(t, b, dir) == dir[1] \in DOMAIN t /\ dir[1] \notin b

\* The entries of a section that loses its greatest one
DirEntriesShort(t, dir) ==
    LET all == { <<dir[1], f>> : f \in t[dir[1]] }
    IN  { p \in all : \E q \in all : PathLt(p, q) }

\* The paths of the entries of the section directory dir
DirEntries(t, dir) == { <<dir[1], f>> : f \in t[dir[1]] }

\* A usize of 64 bits as its four digits in base 65536, the most
\* significant first; n is a length, less than 2^31
Usize(n) == <<0, 0, n \div 65536, n % 65536>>

\* usize::wrapping_sub(u, 1): the borrow runs through the digits that are 0
RECURSIVE WrappingDecrement(_)
WrappingDecrement(u) ==
    IF u = <<>> THEN <<>>
    ELSE IF u[Len(u)] > 0
         THEN SubSeq(u, 1, Len(u) - 1) \o <<u[Len(u)] - 1>>
         ELSE WrappingDecrement(SubSeq(u, 1, Len(u) - 1)) \o <<65535>>

\* dirs.len() - 1 computed as dirs.len()
LastIndexOffByOne(n) == Usize(n)

\* dirs.len() - 1 in usize, where the build does not check overflow:
\* 0 - 1 wraps to 2^64 - 1
LastIndex(n) == WrappingDecrement(Usize(n))

-----------------------------------------------------------------------------
(* The callbacks: each appends what it was called with *)

Chunk(op, args) == [op |-> op, args |-> args]

\* "C_new", a section no generated tree holds, and "3_new", such a file
C_new == <<67, 95, 110, 101, 119>>
N3_new == <<51, 95, 110, 101, 119>>

\* The sections and files of the trees whose callbacks change them
MutSections == {A_one, B_two}
MutItems == {N1_alpha, N2_beta}

\* What a callback may do to the tree t in one change: add, remove or
\* rename a file, or add or remove a section
Changes(t) ==
    { [x \in DOMAIN t |-> IF x = d THEN t[d] \cup {f} ELSE t[x]]
        : d \in DOMAIN t, f \in MutItems \cup {N3_new} }
    \cup { [x \in DOMAIN t |-> IF x = d THEN t[d] \ {f} ELSE t[x]]
        : d \in DOMAIN t, f \in MutItems }
    \cup { [x \in DOMAIN t |-> IF x = d /\ f \in t[d]
                               THEN (t[d] \ {f}) \cup {N3_new} ELSE t[x]]
        : d \in DOMAIN t, f \in MutItems }
    \cup { [x \in DOMAIN t \ {d} |-> t[x]] : d \in DOMAIN t }
    \cup { [x \in DOMAIN t \cup {d} |-> IF x \in DOMAIN t THEN t[x] ELSE {}]
        : d \in MutSections \cup {C_new} }

\* A callback leaves the tree alone or, while budget lasts, changes it
SideEffect ==
    IF budget > 0
    THEN \E t \in Changes(tree) \cup {tree} :
            /\ tree' = t
            /\ budget' = IF t = tree THEN budget ELSE budget - 1
    ELSE UNCHANGED <<tree, budget>>

Env == <<root, blocked, overflow_checks, start_string, tree0, runs, prev>>

-----------------------------------------------------------------------------
(* process_manual *)

\* lines 259-265: the accumulator, the listing of docs/manual/, its sort
\* and last_index
ReadRoot ==
    /\ pc = "read_root"
    /\ string' = start_string
    /\ IF ~RootReadable(root)
       THEN /\ pc' = "panicked"
            /\ UNCHANGED <<dirs, last_index>>
       ELSE \E listing \in Listings(RootEntries(tree)) :
            LET sorted == sort_unstable(listing)
            IN  IF Len(sorted) = 0 /\ overflow_checks
                THEN /\ pc' = "panicked"
                     /\ UNCHANGED <<dirs, last_index>>
                ELSE /\ dirs' = sorted
                     /\ last_index' = LastIndex(Len(sorted))
                     /\ pc' = "loop"
    /\ i' = 0
    /\ UNCHANGED <<tree, budget, paths, calls, listed>>
    /\ UNCHANGED Env

\* line 269
SectionStart ==
    /\ pc = "loop"
    /\ i < Len(dirs)
    /\ LET is_last == (Usize(i) = last_index)
       IN  /\ string' = Append(string, Chunk("section_start", <<is_last>>))
           /\ calls' = Append(calls, [op |-> "section_start", path |-> dirs[i + 1],
                                      last |-> is_last])
    /\ SideEffect
    /\ pc' = "section_name"
    /\ UNCHANGED <<dirs, last_index, i, paths, listed>>
    /\ UNCHANGED Env

\* lines 271-284
SectionNameCall ==
    /\ pc = "section_name"
    /\ LET sc == stem_chars(dirs[i + 1])
       IN  IF sc.panicked \/ sc.chars = <<>>
           THEN /\ pc' = "panicked"
                /\ UNCHANGED <<string, calls, tree, budget>>
           ELSE /\ string' = Append(string,
                        Chunk("section_name", <<SectionName(sc.chars), sc.item>>))
                /\ calls' = Append(calls, [op |-> "section_name", path |-> dirs[i + 1],
                                           name |-> SectionName(sc.chars),
                                           item |-> sc.item])
                /\ SideEffect
                /\ pc' = "read_section"
    /\ UNCHANGED <<dirs, last_index, i, paths, listed>>
    /\ UNCHANGED Env

\* lines 286-290
ReadSection ==
    /\ pc = "read_section"
    /\ IF ~DirReadable(tree, blocked, dirs[i + 1])
       THEN /\ pc' = "panicked"
            /\ UNCHANGED <<paths, listed>>
       ELSE /\ \E listing \in Listings(DirEntries(tree, dirs[i + 1])) :
                    paths' = sort_unstable(listing)
            /\ listed' = Append(listed, [path |-> dirs[i + 1],
                                         files |-> tree[dirs[i + 1][1]]])
            /\ pc' = "files"
    /\ UNCHANGED <<tree, budget, string, dirs, last_index, i, calls>>
    /\ UNCHANGED Env

\* lines 292-302
ProcessFile ==
    /\ pc = "files"
    /\ paths # <<>>
    /\ LET path == Head(paths)
           sc == stem_chars(path)
       IN  IF sc.panicked
           THEN /\ pc' = "panicked"
                /\ UNCHANGED <<string, calls, tree, budget, paths>>
           ELSE /\ string' = Append(string,
                        Chunk("process_file", <<sc.chars, path, sc.item>>))
                /\ calls' = Append(calls, [op |-> "process_file", path |-> path,
                                           name |-> sc.chars, item |-> sc.item])
                /\ SideEffect
                /\ paths' = Tail(paths)
                /\ pc' = pc
    /\ UNCHANGED <<dirs, last_index, i, listed>>
    /\ UNCHANGED Env

\* line 304
SectionEnd ==
    /\ pc = "files"
    /\ paths = <<>>
    /\ string' = Append(string, Chunk("section_end", <<>>))
    /\ calls' = Append(calls, [op |-> "section_end", path |-> dirs[i + 1]])
    /\ SideEffect
    /\ i' = i + 1
    /\ pc' = "loop"
    /\ UNCHANGED <<dirs, last_index, paths, listed>>
    /\ UNCHANGED Env

\* line 307
Return ==
    /\ pc = "loop"
    /\ i = Len(dirs)
    /\ pc' = "returned"
    /\ UNCHANGED <<tree, budget, string, dirs, last_index, i, paths, calls, listed>>
    /\ UNCHANGED Env

\* The caller calls process_manual again with the same argument
CallAgain ==
    /\ pc = "returned"
    /\ runs < MaxRuns
    /\ runs' = runs + 1
    /\ prev' = [calls |-> calls, string |-> string]
    /\ tree0' = tree
    /\ pc' = "read_root"
    /\ string' = <<>>
    /\ dirs' = <<>>
    /\ last_index' = Usize(0)
    /\ i' = 0
    /\ paths' = <<>>
    /\ calls' = <<>>
    /\ listed' = <<>>
    /\ UNCHANGED <<root, tree, blocked, overflow_checks, start_string, budget>>

-----------------------------------------------------------------------------
(* The trees the model starts from *)

\* One section: every name as the section's, holding 1_alpha, and every
\* name as a file's, beside 1_alpha in A_one
DecodeTrees ==
    { (d :> {N1_alpha}) : d \in Names } \cup { (A_one :> {N1_alpha, f}) : f \in Names }

\* At most MaxSections sections of SectionPool, each holding at most
\* MaxItems files of ItemPool
PoolTrees ==
    UNION { [D -> { F \in SUBSET ItemPool : Cardinality(F) <= MaxItems }]
            : D \in { E \in SUBSET SectionPool : Cardinality(E) <= MaxSections } }

Trees == DecodeTrees \cup PoolTrees

StartStrings == { <<>>, <<Chunk("start_string", <<>>)>> }

InitCall ==
    /\ pc = "read_root"
    /\ string = <<>>
    /\ dirs = <<>>
    /\ last_index = Usize(0)
    /\ i = 0
    /\ paths = <<>>
    /\ calls = <<>>
    /\ listed = <<>>
    /\ runs = 1
    /\ prev = [calls |-> <<>>, string |-> <<>>]

\* The trees whose callbacks change them
MutTrees ==
    UNION { [D -> SUBSET MutItems] : D \in SUBSET MutSections }

\* The environment of a call.  An entry of docs/manual/ that cannot be
\* listed shows no file; the build decides only a call that finds no
\* section; an unreadable root hides whatever it holds.
InitEnv(T, S) ==
    /\ root \in {"ok", "missing", "unreadable"}
    /\ tree \in CASE root = "ok" -> T
                [] root = "missing" -> { <<>> }
                [] OTHER -> { (A_one :> {N1_alpha}) }
    /\ blocked \in { {} } \cup { {d} : d \in { e \in DOMAIN tree : tree[e] = {} } }
    /\ overflow_checks \in IF DOMAIN tree = {} THEN BOOLEAN ELSE {TRUE}
    /\ start_string \in S
    /\ tree0 = tree

Init == InitEnv(Trees, StartStrings) /\ budget = 0 /\ InitCall

InitMut == InitEnv(MutTrees, { <<>> }) /\ budget = MaxMutations /\ InitCall

Step ==
    \/ ReadRoot
    \/ SectionStart
    \/ SectionNameCall
    \/ ReadSection
    \/ ProcessFile
    \/ SectionEnd
    \/ Return

Next == Step \/ CallAgain

\* process_manual over a tree its callbacks leave alone, called up to
\* MaxRuns times
Spec == Init /\ [][Next]_vars

\* process_manual with callbacks that change the tree
SpecMut == InitMut /\ [][Step]_vars

--------------------------------------------------------------------------------------------------------------------------------------------------
(* What the properties below are stated with *)

\* The stem of the last component of a path
StemOf(path) == file_stem(path[Len(path)])

\* The sequence that holds the paths S in ascending order
Ascending(S) ==
    CHOOSE l \in Listings(S) : \A a, b \in 1..Len(l) : a < b => PathLt(l[a], l[b])

IsPrefix(s, t) == Len(s) <= Len(t) /\ SubSeq(t, 1, Len(s)) = s

\* A call as its callback and the entry it is about
OpOf(c) == <<c.op, c.path>>

OpsOf(cs) == [k \in 1..Len(cs) |-> OpOf(cs[k])]

\* The calls of one section of the tree t
SectionOps(t, dir) ==
    <<  <<"section_start", dir>>, <<"section_name", dir>>  >>
    \o [k \in 1..Cardinality(t[dir[1]]) |->
            <<"process_file", Ascending(DirEntries(t, dir))[k]>>]
    \o <<  <<"section_end", dir>>  >>

RECURSIVE Concat(_)
Concat(ss) == IF ss = <<>> THEN <<>> ELSE Head(ss) \o Concat(Tail(ss))

\* The calls of a whole walk of the tree t
ExpectedOps(t) ==
    Concat([k \in 1..Cardinality(DOMAIN t) |->
                SectionOps(t, Ascending(RootEntries(t))[k])])

\* The index of the first alphabetic character of a stem after its first
\* character, or one past its end
FirstAlphabetic(stem) ==
    IF \E k \in 2..Len(stem) : is_alphabetic(stem[k])
    THEN CHOOSE k \in 2..Len(stem) :
            /\ is_alphabetic(stem[k])
            /\ \A m \in 2..(k - 1) : ~is_alphabetic(stem[m])
    ELSE Len(stem) + 1

\* The remainder of a stem: from that character to the end
Remainder(stem) == SubSeq(stem, FirstAlphabetic(stem), Len(stem))

\* Every section of the tree can be listed, and its stem holds an
\* alphabetic character after the first
WellFormed ==
    /\ root = "ok"
    /\ blocked = {}
    /\ \A d \in DOMAIN tree0 : Remainder(file_stem(d)) # <<>>

IsUtf8(name) == \A k \in 1..Len(name) : name[k] \notin NotUtf8

\* The stem of every section and of every file is valid UTF-8
StemsUtf8 ==
    \A d \in DOMAIN tree0 :
        /\ IsUtf8(file_stem(d))
        /\ \A f \in tree0[d] : IsUtf8(file_stem(f))

CallsTo(op) == SelectSeq(calls, LAMBDA c : c.op = op)

-----------------------------------------------------------------------------
(* C1 *)

\* C1 as claimed: over a readable tree of N >= 1 sections whose stems each
\* hold an alphabetic character after the first, the call does not abort,
\* its calls are at every moment a prefix of: for each section in ascending
\* path order, section_start, section_name, process_file for each of its
\* entries in ascending path order, section_end; and they are all of it on
\* return.
C1_CallOrderAnyName ==
    (WellFormed /\ DOMAIN tree0 # {}) =>
        /\ pc # "panicked"
        /\ IsPrefix(OpsOf(calls), ExpectedOps(tree0))
        /\ pc = "returned" => OpsOf(calls) = ExpectedOps(tree0)

\* C1, amended: the same, over the trees in which the stem of every section
\* and of every file is moreover valid UTF-8.
C1_CallOrder ==
    (WellFormed /\ StemsUtf8 /\ DOMAIN tree0 # {}) =>
        /\ pc # "panicked"
        /\ IsPrefix(OpsOf(calls), ExpectedOps(tree0))
        /\ pc = "returned" => OpsOf(calls) = ExpectedOps(tree0)

\* Two sections, one of them with two files, walked to the end
C1_Witness ==
    /\ pc = "returned"
    /\ WellFormed
    /\ StemsUtf8
    /\ Cardinality(DOMAIN tree0) = 2
    /\ \E d \in DOMAIN tree0 : Cardinality(tree0[d]) = 2
    /\ Len(calls) >= 8

-----------------------------------------------------------------------------
(* C2 *)

\* C2: on return from a walk of N >= 1 sections, exactly one section_start
\* call was given true, the one of the greatest section path.
C2_LastSection ==
    (pc = "returned" /\ DOMAIN tree0 # {}) =>
        LET starts == CallsTo("section_start")
        IN  /\ Cardinality({ k \in 1..Len(starts) : starts[k].last }) = 1
            /\ \A k \in 1..Len(starts) :
                    starts[k].last <=>
                        \A d \in DOMAIN tree0 :
                            d # starts[k].path[1] => NameLt(d, starts[k].path[1])

\* A walk of two sections: one call with false, then one with true
C2_Witness ==
    /\ pc = "returned"
    /\ Len(CallsTo("section_start")) = 2
    /\ ~CallsTo("section_start")[1].last
    /\ CallsTo("section_start")[2].last

-----------------------------------------------------------------------------
(* C3 *)

KindOfAnyCase(c) ==
    CASE c \in {83, 115, 84, 116} -> "Tool"
      [] c \in {88, 120} -> "Texture"
      [] OTHER -> "Regular"

KindOfExact(c) ==
    CASE c \in {83, 84} -> "Tool"
      [] c = 88 -> "Texture"
      [] OTHER -> "Regular"

NamedCalls == { k \in 1..Len(calls) : calls[k].op \in {"section_name", "process_file"} }

\* C3 as claimed: the kind follows the stem's first character whatever its
\* case: 'S', 's', 'T', 't' Tool; 'X', 'x' Texture; else Regular.
C3_KindAnyCase ==
    \A k \in NamedCalls : calls[k].item = KindOfAnyCase(Head(StemOf(calls[k].path)))

\* C3, amended: the kind passed to section_name and process_file follows
\* the stem's first character exactly: 'S' or 'T' Tool, 'X' Texture, and
\* every other character, 's', 't' and 'x' among them, Regular.
C3_KindExact ==
    \A k \in NamedCalls : calls[k].item = KindOfExact(Head(StemOf(calls[k].path)))

\* A section whose stem begins with 's' and a file whose stem begins with
\* 'x' were passed as Regular, and a section with 'S' as Tool
C3_Witness ==
    /\ \E k \in NamedCalls :
            /\ calls[k].op = "process_file"
            /\ Head(StemOf(calls[k].path)) = 120
            /\ calls[k].item = "Regular"
    /\ \E k \in NamedCalls :
            /\ calls[k].op = "section_name"
            /\ Head(StemOf(calls[k].path)) = 83
            /\ calls[k].item = "Tool"

-----------------------------------------------------------------------------
(* C4 *)

\* The tree of sections A_one, holding 1_alpha and 2_beta, and B_two,
\* holding nothing
ExampleTree == (A_one :> {N1_alpha, N2_beta}) @@ (B_two :> {})

\* A call as the example writes it
Shown(c) ==
    CASE c.op = "section_start" -> [op |-> c.op, last |-> c.last]
      [] c.op = "section_name" -> [op |-> c.op, name |-> c.name, item |-> c.item]
      [] c.op = "process_file" -> [op |-> c.op, name |-> c.name]
      [] OTHER -> [op |-> c.op]

ShownCalls == [k \in 1..Len(calls) |-> Shown(calls[k])]

\* The example's calls, the two sections named a and b
ExampleCalls(a, b) ==
    << [op |-> "section_start", last |-> FALSE],
       [op |-> "section_name", name |-> a, item |-> "Regular"],
       [op |-> "process_file", name |-> <<97, 108, 112, 104, 97>>],
       [op |-> "process_file", name |-> <<98, 101, 116, 97>>],
       [op |-> "section_end"],
       [op |-> "section_start", last |-> TRUE],
       [op |-> "section_name", name |-> b, item |-> "Regular"],
       [op |-> "section_end"] >>

ExampleWalked == tree0 = ExampleTree /\ root = "ok" /\ blocked = {}

\* C4 as claimed: the example's sections are named "A one" and "B two".
C4_ExampleAsClaimed ==
    ExampleWalked =>
        /\ pc # "panicked"
        /\ pc = "returned" =>
                ShownCalls = ExampleCalls(<<65, 32, 111, 110, 101>>,
                                          <<66, 32, 116, 119, 111>>)

\* C4, amended: over the example tree the call produces exactly
\* section_start(false), section_name("One", Regular), process_file("alpha"),
\* process_file("beta"), section_end, section_start(true),
\* section_name("Two", Regular), section_end: the first character of a
\* section's stem and the '_' after it are not part of its name.
C4_Example ==
    ExampleWalked =>
        /\ pc # "panicked"
        /\ pc = "returned" =>
                ShownCalls = ExampleCalls(<<79, 110, 101>>, <<84, 119, 111>>)

\* The example tree walked to the end
C4_Witness == ExampleWalked /\ pc = "returned" /\ Len(calls) = 8

-----------------------------------------------------------------------------
(* C5 *)

\* char::to_uppercase of the characters of the model: e-acute has a capital
Capital(c) == IF c = 233 THEN 201 ELSE IF c >= 97 /\ c <= 122 THEN c - 32 ELSE c

AsciiCapital(c) == IF c >= 97 /\ c <= 122 THEN c - 32 ELSE c

SectionNameCalls == { k \in 1..Len(calls) : calls[k].op = "section_name" }

\* C5 as claimed: the section's name is the remainder of its stem, every
\* '_' a ' ', its first letter capitalised.
C5_NameCapitalised ==
    \A k \in SectionNameCalls :
        LET rest == Remainder(StemOf(calls[k].path))
        IN  calls[k].name =
                [m \in 1..Len(rest) |->
                    IF m = 1 THEN Capital(rest[m])
                    ELSE IF rest[m] = 95 THEN 32 ELSE rest[m]]

\* C5, amended: the name passed to section_name is built from the stem
\* without its first character: what follows is skipped up to the first
\* alphabetic character, and the rest is passed with every '_' a ' ' and
\* its first letter in ASCII upper case ('a'..'z' become 'A'..'Z'; a letter
\* outside ASCII stays as it is).
C5_NameAsciiUpper ==
    \A k \in SectionNameCalls :
        LET rest == Remainder(StemOf(calls[k].path))
        IN  calls[k].name =
                [m \in 1..Len(rest) |->
                    IF m = 1 THEN AsciiCapital(rest[m])
                    ELSE IF rest[m] = 95 THEN 32 ELSE rest[m]]

\* A section named from a stem with a skipped character, a lower-case first
\* letter and a '_' after it; and one whose first letter is not ASCII
C5_Witness ==
    /\ \E k \in SectionNameCalls :
            LET stem == StemOf(calls[k].path)
            IN  /\ FirstAlphabetic(stem) >= 3
                /\ FirstAlphabetic(stem) <= Len(stem)
                /\ calls[k].name[1] # stem[FirstAlphabetic(stem)]
                /\ \E m \in 1..Len(calls[k].name) : calls[k].name[m] = 32
    /\ \E k \in SectionNameCalls : calls[k].name[1] = 233

-----------------------------------------------------------------------------
(* C6 *)

ProcessFileCalls == { k \in 1..Len(calls) : calls[k].op = "process_file" }

\* C6: the name passed to process_file is the remainder of the file's stem
\* as it stands: no character upper-cased, every '_' kept.
C6_ItemNameRaw ==
    \A k \in ProcessFileCalls : calls[k].name = Remainder(StemOf(calls[k].path))

\* A file named from a stem with a skipped character, a lower-case first
\* letter and a '_' after it
C6_Witness ==
    \E k \in ProcessFileCalls :
        LET stem == StemOf(calls[k].path)
        IN  /\ FirstAlphabetic(stem) >= 3
            /\ calls[k].name # <<>>
            /\ calls[k].name[1] >= 97 /\ calls[k].name[1] <= 122
            /\ \E m \in 1..Len(calls[k].name) : calls[k].name[m] = 95

-----------------------------------------------------------------------------
(* C7 *)

\* The sections section_start was called for, in the order of the calls
StartedSections ==
    [k \in 1..Len(CallsTo("section_start")) |-> CallsTo("section_start")[k].path]

\* The files of section dir process_file was called for, in that order
ProcessedFiles(dir) ==
    LET cs == SelectSeq(calls, LAMBDA c : c.op = "process_file" /\ c.path[1] = dir[1])
    IN  [k \in 1..Len(cs) |-> cs[k].path]

SectionEnded(dir) == \E k \in 1..Len(calls) : calls[k] = [op |-> "section_end", path |-> dir]

\* C7 as claimed: what is processed, and in which order, is fixed by the
\* tree as it is before the first callback, whatever the callbacks do to it.
C7_FixedBeforeCallbacks == IsPrefix(OpsOf(calls), ExpectedOps(tree0))

\* C7, amended: the order of the sections is fixed before the first callback
\* runs (the listing of docs/manual/ is taken and sorted before any callback
\* is invoked), so no callback changes which sections are started
\* afterwards, nor their order.  The files of a section are listed and
\* sorted only when the section is reached, after its section_start and
\* section_name calls: they are the files the section holds at that moment,
\* whatever the callbacks before did to it, and no callback after changes
\* them or their order.
C7_FixedWhenListed ==
    /\ IsPrefix(StartedSections, Ascending(RootEntries(tree0)))
    /\ pc = "returned" => StartedSections = Ascending(RootEntries(tree0))
    /\ \A k \in 1..Len(listed) :
        LET want == Ascending({ <<listed[k].path[1], f>> : f \in listed[k].files })
            got == ProcessedFiles(listed[k].path)
        IN  /\ IsPrefix(got, want)
            /\ SectionEnded(listed[k].path) => got = want

\* A walk to the end whose callbacks changed the tree, and which processed
\* other files than the tree held before the first callback
C7_Witness ==
    /\ pc = "returned"
    /\ tree # tree0
    /\ Len(calls) >= 4
    /\ OpsOf(calls) # ExpectedOps(tree0)

-----------------------------------------------------------------------------
(* C8 *)

\* C8: when docs/manual/ is missing or cannot be read, the call aborts: it
\* returns no string and has called no callback.
C8_RootFailure ==
    (root # "ok" /\ pc # "read_root") => (pc = "panicked" /\ calls = <<>>)

\* The call aborted on a root that holds a section but cannot be read
C8_Witness ==
    /\ root = "unreadable"
    /\ DOMAIN tree # {}
    /\ pc = "panicked"
    /\ calls = <<>>

-----------------------------------------------------------------------------
(* C9 *)

\* C9: a second call over the unchanged tree, with the same start_string,
\* makes the same calls and returns the same string as the first, whatever
\* order the listings of either call came in.
C9_SameResult ==
    (runs >= 2 /\ pc = "returned" /\ tree = tree0) =>
        /\ calls = prev.calls
        /\ string = prev.string

\* A second walk to the end of two sections, one with two files, from a
\* start_string that is not empty
C9_Witness ==
    /\ runs = 2
    /\ pc = "returned"
    /\ start_string # <<>>
    /\ Cardinality(DOMAIN tree) = 2
    /\ \E d \in DOMAIN tree : Cardinality(tree[d]) = 2
    /\ Len(string) = Len(start_string) + Len(calls)

-----------------------------------------------------------------------------
(* C10 *)

\* C10: when docs/manual/ can be read and holds no entry, the call does not
\* abort, calls no callback and returns start_string.
C10_EmptyRoot ==
    (root = "ok" /\ DOMAIN tree0 = {} /\ pc # "read_root") =>
        /\ pc \in {"loop", "returned"}
        /\ calls = <<>>
        /\ string = start_string

=============================================================================
